---------------------------- MODULE Spec2Model ----------------------------
(***************************************************************************)
(* Model of dcap-rs: the VerifiedOutput codec and the IntelCollateralV3    *)
(* builder (src/types/mod.rs) and the DCAP v3 quote verification entry     *)
(* point verify_quote_dcapv3 (src/utils/quotes/version_3.rs).              *)
(*                                                                         *)
(* Rust values are represented as follows:                                 *)
(*   Option<T>      None is <<>>, Some(x) is <<x>>                         *)
(*   [u8; n], &[u8] a sequence of integers in 0..255; Rust index k is      *)
(*                  TLA+ index k + 1                                       *)
(*   a call         a record with kind "ok" (a value was returned) or      *)
(*                  "panic" (the thread unwound with message msg); a       *)
(*                  function of this code base has no other way to fail,   *)
(*                  none of the modelled signatures returns a Result       *)
(***************************************************************************)
EXTENDS Integers, Sequences, FiniteSets, TLC

VARIABLES
    \* VerifiedOutput codec
    vo,        \* the VerifiedOutput handed to to_bytes
    enc,       \* Some(to_bytes(vo)) once encoded
    raw,       \* the slice handed to from_bytes
    dec,       \* the outcome of from_bytes(raw)
    cpc,       \* position of the codec client
    \* IntelCollateralV3 builder
    coll,      \* the IntelCollateralV3 value
    last,      \* history: per slot, the value the latest returned setter gave
    ret,       \* the outcome of the latest call on coll
    \* verify_quote_dcapv3
    quote,     \* the QuoteV3 under verification
    fetched,   \* what common_verify_and_fetch_tcb returned, if it was called
    out        \* the outcome of verify_quote_dcapv3

vars == <<vo, enc, raw, dec, cpc, coll, last, ret, quote, fetched, out>>
codecVars == <<vo, enc, raw, dec, cpc>>
collVars == <<coll, last, ret>>
verifyVars == <<quote, fetched, out>>

None == <<>>
Some(x) == <<x>>

NoCall == [kind |-> "none", msg |-> "", value |-> None]
Returned(x) == [kind |-> "ok", msg |-> "", value |-> Some(x)]
Panicked(m) == [kind |-> "panic", msg |-> m, value |-> None]

(***************************************************************************)
(* TcbStatus                                                               *)
(***************************************************************************)
TcbStatus ==
    << "OK",
       "TcbSwHardeningNeeded",
       "TcbConfigurationAndSwHardeningNeeded",
       "TcbConfigurationNeeded",
       "TcbOutOfDate",
       "TcbOutOfDateConfigurationNeeded",
       "TcbRevoked",
       "TcbUnrecognized" >>

TcbStatusValues == {TcbStatus[i] : i \in 1..Len(TcbStatus)}

(***************************************************************************)
(* Byte buffers                                                            *)
(***************************************************************************)
\* [0; n]
Zeroed(n) == [i \in 1..n |-> 0]

\* buf[a..b].copy_from_slice(src): the range a..b must lie inside buf and
\* have src's length, otherwise the call panics.
CopyFromSlice(buf, a, b, src) ==
    IF b > Len(buf) \/ b - a # Len(src)
      THEN Panicked("copy_from_slice")
      ELSE Returned([i \in 1..Len(buf) |->
                        IF a < i /\ i <= b THEN src[i - a] ELSE buf[i]])

\* &slice[a..b]: panics when the range ends past the slice.
SliceRange(slice, a, b) ==
    IF b > Len(slice)
      THEN Panicked("range end index out of range")
      ELSE Returned([i \in 1..(b - a) |-> slice[a + i]])

(***************************************************************************)
(* VerifiedOutput::to_bytes                                                *)
(***************************************************************************)
ToBytesDiscriminant(s) ==
    CASE s = "OK" -> 0
      [] s = "TcbSwHardeningNeeded" -> 1
      [] s = "TcbConfigurationAndSwHardeningNeeded" -> 2
      [] s = "TcbConfigurationNeeded" -> 3
      [] s = "TcbOutOfDate" -> 4
      [] s = "TcbOutOfDateConfigurationNeeded" -> 5
      [] s = "TcbRevoked" -> 6
      [] s = "TcbUnrecognized" -> 7

\* the mutation: the signer is copied where the measurement belongs and
\* the measurement where the signer belongs
to_bytes_swapped(self) ==
    LET b0 == [Zeroed(135) EXCEPT ![1] = ToBytesDiscriminant(self.tcb_status)]
        b1 == CopyFromSlice(b0, 1, 33, self.mr_signer).value[1]
        b2 == CopyFromSlice(b1, 33, 65, self.mr_enclave).value[1]
        b3 == CopyFromSlice(b2, 65, 129, self.report_data).value[1]
        b4 == CopyFromSlice(b3, 129, 135, self.fmspc).value[1]
    IN  b4

to_bytes(self) ==
    LET b0 == [Zeroed(135) EXCEPT ![1] = ToBytesDiscriminant(self.tcb_status)]
        b1 == CopyFromSlice(b0, 1, 33, self.mr_enclave).value[1]
        b2 == CopyFromSlice(b1, 33, 65, self.mr_signer).value[1]
        b3 == CopyFromSlice(b2, 65, 129, self.report_data).value[1]
        b4 == CopyFromSlice(b3, 129, 135, self.fmspc).value[1]
    IN  b4

(***************************************************************************)
(* VerifiedOutput::from_bytes                                              *)
(***************************************************************************)
FromBytesStatus(b) ==
    CASE b = 0 -> Returned("OK")
      [] b = 1 -> Returned("TcbSwHardeningNeeded")
      [] b = 2 -> Returned("TcbConfigurationAndSwHardeningNeeded")
      [] b = 3 -> Returned("TcbConfigurationNeeded")
      [] b = 4 -> Returned("TcbOutOfDate")
      [] b = 5 -> Returned("TcbOutOfDateConfigurationNeeded")
      [] b = 6 -> Returned("TcbRevoked")
      [] b = 7 -> Returned("TcbUnrecognized")
      [] OTHER -> Panicked("Invalid TCB Status")

\* the mutation: the signer is read one byte early
from_bytes_early_signer(slice) ==
    IF Len(slice) = 0 THEN Panicked("index out of bounds") ELSE
    LET tcb_status  == FromBytesStatus(slice[1])
        mr_enclave  == SliceRange(slice, 1, 33)
        mr_signer   == SliceRange(slice, 32, 64)
        report_data == SliceRange(slice, 65, 129)
        fmspc       == SliceRange(slice, 129, 135)
    IN  CASE tcb_status.kind = "panic"  -> tcb_status
          [] mr_enclave.kind = "panic"  -> mr_enclave
          [] mr_signer.kind = "panic"   -> mr_signer
          [] report_data.kind = "panic" -> report_data
          [] fmspc.kind = "panic"       -> fmspc
          [] OTHER ->
               Returned([tcb_status  |-> tcb_status.value[1],
                         mr_enclave  |-> mr_enclave.value[1],
                         mr_signer   |-> mr_signer.value[1],
                         report_data |-> report_data.value[1],
                         fmspc       |-> fmspc.value[1]])

from_bytes(slice) ==
    IF Len(slice) = 0 THEN Panicked("index out of bounds") ELSE
    LET tcb_status  == FromBytesStatus(slice[1])
        mr_enclave  == SliceRange(slice, 1, 33)
        mr_signer   == SliceRange(slice, 33, 65)
        report_data == SliceRange(slice, 65, 129)
        fmspc       == SliceRange(slice, 129, 135)
    IN  CASE tcb_status.kind = "panic"  -> tcb_status
          [] mr_enclave.kind = "panic"  -> mr_enclave
          [] mr_signer.kind = "panic"   -> mr_signer
          [] report_data.kind = "panic" -> report_data
          [] fmspc.kind = "panic"       -> fmspc
          [] OTHER ->
               Returned([tcb_status  |-> tcb_status.value[1],
                         mr_enclave  |-> mr_enclave.value[1],
                         mr_signer   |-> mr_signer.value[1],
                         report_data |-> report_data.value[1],
                         fmspc       |-> fmspc.value[1]])

(***************************************************************************)
(* The codec client: encode a VerifiedOutput, hand the bytes (as encoded,  *)
(* or altered in transit) to from_bytes.                                   *)
(***************************************************************************)
\* the number of distinct non-zero fillings tried for each byte field
MaxSeed == 1
\* the number of bytes a transport may append to an encoding
MaxExtra == 1

\* a byte array of length n: all zero for seed 0, otherwise different at
\* every position
ByteArray(n, seed) == [i \in 1..n |-> (seed * 85 + i * seed) % 256]

VerifiedOutputs ==
    [tcb_status  : TcbStatusValues,
     mr_enclave  : {ByteArray(32, s) : s \in 0..MaxSeed},
     mr_signer   : {ByteArray(32, s) : s \in 0..MaxSeed},
     report_data : {ByteArray(64, s) : s \in 0..MaxSeed},
     fmspc       : {ByteArray(6, s) : s \in 0..MaxSeed}]

\* the first byte an altered buffer may carry, and the lengths it may have
AlteredFirstBytes == {0, 7, 8, 255}
AlteredLengths == {0, 1, 33, 134} \cup (135..(135 + MaxExtra))

Resized(s, n) == [i \in 1..n |-> IF i <= Len(s) THEN s[i] ELSE 0]
Altered(s, b, n) ==
    LET r == Resized(s, n) IN IF n = 0 THEN r ELSE [r EXCEPT ![1] = b]

InitCodec ==
    /\ vo \in VerifiedOutputs
    /\ enc = None
    /\ raw = <<>>
    /\ dec = NoCall
    /\ cpc = "built"

IdleCodec ==
    /\ vo = [tcb_status |-> "OK", mr_enclave |-> Zeroed(32), mr_signer |-> Zeroed(32),
             report_data |-> Zeroed(64), fmspc |-> Zeroed(6)]
    /\ enc = None
    /\ raw = <<>>
    /\ dec = NoCall
    /\ cpc = "idle"

Encode ==
    /\ cpc = "built"
    /\ enc' = Some(to_bytes(vo))
    /\ raw' = to_bytes(vo)
    /\ cpc' = "encoded"
    /\ UNCHANGED <<vo, dec>>

Alter ==
    /\ cpc = "encoded"
    /\ \E b \in AlteredFirstBytes, n \in AlteredLengths :
          raw' = Altered(raw, b, n)
    /\ cpc' = "altered"
    /\ UNCHANGED <<vo, enc, dec>>

Decode ==
    /\ cpc \in {"encoded", "altered"}
    /\ dec' = from_bytes(raw)
    /\ cpc' = "decoded"
    /\ UNCHANGED <<vo, enc, raw>>

(***************************************************************************)
(* IntelCollateralV3                                                       *)
(***************************************************************************)
\* the number of distinct documents / certificates / CRLs a caller holds
MaxBlob == 2

Slots ==
    {"tcbinfov2", "qe_identityv2", "intel_root_ca_der", "sgx_tcb_signing_der",
     "sgx_pck_certchain_der", "sgx_intel_root_ca_crl_der",
     "sgx_pck_processor_crl_der", "sgx_pck_platform_crl_der"}

\* DER encodings: a SEQUENCE tag followed by content
Ders == {<<48, k>> : k \in 1..MaxBlob}
\* PEM texts: a DER encoding armoured under a label
Pems == [label : {"CERTIFICATE"}, body : Ders]
\* JSON texts handed to the document setters
Jsons == [text : {"object"}, id : 1..MaxBlob]
           \cup [text : {"null", "malformed"}, id : {0}]

\* serde_json::from_slice::<Option<T>>: JSON null is None, an object is
\* Some(the document), anything else is an Err
from_slice(json) ==
    CASE json.text = "null"   -> [ok |-> TRUE, value |-> None]
      [] json.text = "object" -> [ok |-> TRUE, value |-> Some([id |-> json.id])]
      [] OTHER                -> [ok |-> FALSE, value |-> None]

pem_to_der(pem) == pem.body
parse_der(der) == [raw |-> der]
parse_der_multi(der) == <<[raw |-> der]>>

new ==
    [tcbinfov2 |-> None,
     qe_identityv2 |-> None,
     intel_root_ca_der |-> None,
     sgx_tcb_signing_der |-> None,
     sgx_pck_certchain_der |-> None,
     sgx_intel_root_ca_crl_der |-> None,
     sgx_pck_processor_crl_der |-> None,
     sgx_pck_platform_crl_der |-> None]

\* Result::unwrap panics on Err, before the assignment takes place
set_tcbinfov2(self, tcbinfov2_slice) ==
    LET r == from_slice(tcbinfov2_slice)
    IN  IF r.ok THEN Returned([self EXCEPT !.tcbinfov2 = r.value])
                ELSE Panicked("called Result::unwrap() on an Err value")

set_qeidentityv2(self, qeidentityv2_slice) ==
    LET r == from_slice(qeidentityv2_slice)
    IN  IF r.ok THEN Returned([self EXCEPT !.qe_identityv2 = r.value])
                ELSE Panicked("called Result::unwrap() on an Err value")

get_intel_root_ca(self) ==
    IF self.intel_root_ca_der # None
      THEN Returned(parse_der(self.intel_root_ca_der[1]))
      ELSE Panicked("Intel Root CA not set")

set_intel_root_ca_der(self, intel_root_ca_der) ==
    [self EXCEPT !.intel_root_ca_der = Some(intel_root_ca_der)]

get_sgx_tcb_signing(self) ==
    IF self.sgx_tcb_signing_der # None
      THEN Returned(parse_der(self.sgx_tcb_signing_der[1]))
      ELSE Panicked("SGX TCB Signing Cert not set")

\* the mutation: the signing certificate lands in the root CA slot
set_sgx_tcb_signing_der_wrong_slot(self, sgx_tcb_signing_der) ==
    [self EXCEPT !.intel_root_ca_der = Some(sgx_tcb_signing_der)]

set_sgx_tcb_signing_der(self, sgx_tcb_signing_der) ==
    [self EXCEPT !.sgx_tcb_signing_der = Some(sgx_tcb_signing_der)]

set_sgx_tcb_signing_pem(self, sgx_tcb_signing_pem) ==
    LET sgx_tcb_signing_der == pem_to_der(sgx_tcb_signing_pem)
    IN  [self EXCEPT !.sgx_tcb_signing_der = Some(sgx_tcb_signing_der)]

get_sgx_pck_certchain(self) ==
    IF self.sgx_pck_certchain_der # None
      THEN Returned(Some(parse_der_multi(self.sgx_pck_certchain_der[1])))
      ELSE Returned(None)

set_sgx_pck_certchain_der(self, sgx_pck_certchain_der) ==
    IF sgx_pck_certchain_der # None
      THEN [self EXCEPT !.sgx_pck_certchain_der = Some(sgx_pck_certchain_der[1])]
      ELSE [self EXCEPT !.sgx_pck_certchain_der = None]

set_sgx_pck_certchain_pem(self, sgx_pck_certchain_pem) ==
    IF sgx_pck_certchain_pem # None
      THEN [self EXCEPT !.sgx_pck_certchain_der =
                            Some(pem_to_der(sgx_pck_certchain_pem[1]))]
      ELSE [self EXCEPT !.sgx_pck_certchain_der = None]

set_sgx_processor_crl_der(self, sgx_pck_processor_crl_der) ==
    [self EXCEPT !.sgx_pck_processor_crl_der = Some(sgx_pck_processor_crl_der)]

(***************************************************************************)
(* A caller of the builder.  Each action is one call on the collateral;    *)
(* `last` records, per slot, the value the latest returned setter call     *)
(* gave for it.  A panic ends the caller.                                  *)
(***************************************************************************)
NoOp == [op |-> "new", res |-> Returned("unit")]
Unit(op) == [op |-> op, res |-> Returned("unit")]
Running == ret.res.kind # "panic"

InitColl ==
    /\ coll = new
    /\ last = [s \in Slots |-> None]
    /\ ret = NoOp

IdleColl ==
    /\ coll = new
    /\ last = [s \in Slots |-> None]
    /\ ret = [op |-> "idle", res |-> Returned("unit")]

\* a setter that cannot fail: the updated collateral, the slot, the value given
Assign(op, updated, slot, given) ==
    /\ coll' = updated
    /\ last' = [last EXCEPT ![slot] = given]
    /\ ret' = Unit(op)

\* a setter that parses its argument
AssignParsed(op, outcome, slot, given) ==
    IF outcome.kind = "ok"
      THEN Assign(op, outcome.value[1], slot, given)
      ELSE /\ ret' = [op |-> op, res |-> outcome]
           /\ UNCHANGED <<coll, last>>

Get(op, outcome) ==
    /\ ret' = [op |-> op, res |-> outcome]
    /\ UNCHANGED <<coll, last>>

SetTcbInfoV2 ==
    /\ Running
    /\ \E j \in Jsons :
          AssignParsed("set_tcbinfov2", set_tcbinfov2(coll, j), "tcbinfov2",
                       IF j.text = "object" THEN Some([id |-> j.id]) ELSE None)

SetQeIdentityV2 ==
    /\ Running
    /\ \E j \in Jsons :
          AssignParsed("set_qeidentityv2", set_qeidentityv2(coll, j), "qe_identityv2",
                       IF j.text = "object" THEN Some([id |-> j.id]) ELSE None)

GetIntelRootCa ==
    /\ Running
    /\ Get("get_intel_root_ca", get_intel_root_ca(coll))

SetIntelRootCaDer ==
    /\ Running
    /\ \E d \in Ders :
          Assign("set_intel_root_ca_der", set_intel_root_ca_der(coll, d),
                 "intel_root_ca_der", Some(d))

GetSgxTcbSigning ==
    /\ Running
    /\ Get("get_sgx_tcb_signing", get_sgx_tcb_signing(coll))

SetSgxTcbSigningDer ==
    /\ Running
    /\ \E d \in Ders :
          Assign("set_sgx_tcb_signing_der", set_sgx_tcb_signing_der(coll, d),
                 "sgx_tcb_signing_der", Some(d))

SetSgxTcbSigningPem ==
    /\ Running
    /\ \E p \in Pems :
          Assign("set_sgx_tcb_signing_pem", set_sgx_tcb_signing_pem(coll, p),
                 "sgx_tcb_signing_der", Some(p.body))

GetSgxPckCertchain ==
    /\ Running
    /\ Get("get_sgx_pck_certchain", get_sgx_pck_certchain(coll))

SetSgxPckCertchainDer ==
    /\ Running
    /\ \E d \in {None} \cup {Some(x) : x \in Ders} :
          Assign("set_sgx_pck_certchain_der", set_sgx_pck_certchain_der(coll, d),
                 "sgx_pck_certchain_der", d)

SetSgxPckCertchainPem ==
    /\ Running
    /\ \E p \in {None} \cup {Some(x) : x \in Pems} :
          Assign("set_sgx_pck_certchain_pem", set_sgx_pck_certchain_pem(coll, p),
                 "sgx_pck_certchain_der",
                 IF p = None THEN None ELSE Some(p[1].body))

SetSgxProcessorCrlDer ==
    /\ Running
    /\ \E d \in Ders :
          Assign("set_sgx_processor_crl_der", set_sgx_processor_crl_der(coll, d),
                 "sgx_pck_processor_crl_der", Some(d))

(***************************************************************************)
(* verify_quote_dcapv3 and the functions it calls                          *)
(***************************************************************************)
\* position of a status in the TcbStatus enum: its severity
Severity(s) == CHOOSE i \in 1..Len(TcbStatus) : TcbStatus[i] = s

\* the format version verify_quote_dcapv3 expects
ExpectedVersion == 3
\* the number of SVN components of a platform TCB
NumComponents == 16

\* the SVN / PCE SVN a strict TCB level asks for, and an SVN below it
HighSvn == 5
MidSvn == 3
HighPce == 2
\* the longest TcbLevel list of a TCB-info document
MaxLevels == 2

Uniform(v) == [i \in 1..NumComponents |-> v]

\* TCB levels: the strict threshold or the all-zero one, under any status
TcbLevels ==
    [components   : {Uniform(HighSvn)},
     pcesvn       : {HighPce},
     status       : TcbStatusValues,
     advisory_ids : {<<>>}]
      \cup
    [components   : {Uniform(0)},
     pcesvn       : {0},
     status       : TcbStatusValues,
     advisory_ids : {<<"INTEL-SA-00334">>}]

\* level lists in any order, of any length up to MaxLevels
TcbLevelLists == UNION {[1..n -> TcbLevels] : n \in 0..MaxLevels}

TcbInfos ==
    {[variant |-> "V2", levels |-> <<>>]}
      \cup {[variant |-> "V3", levels |-> l] : l \in TcbLevelLists}

\* what the PCK leaf certificate reports: at, above or below the strict
\* threshold, or at it but for the first or the last component
SgxExtensions ==
    [fmspc      : {ByteArray(6, 1)},
     components : {Uniform(0), Uniform(HighSvn), Uniform(HighSvn + 1),
                   [Uniform(HighSvn) EXCEPT ![1] = MidSvn],
                   [Uniform(HighSvn) EXCEPT ![NumComponents] = MidSvn]},
     pcesvn     : {0, HighPce}]

Quotes ==
    [header : [version : (ExpectedVersion - 1)..(ExpectedVersion + 1),
               tee_type : {"SGX"}],
     isv_enclave_report : {[mr_enclave  |-> ByteArray(32, 1),
                            mr_signer   |-> ByteArray(32, 2),
                            report_data |-> ByteArray(64, 3)]}]

\* check_quote_header(header, expected)
check_quote_header(header, expected_quote_version) ==
    header.version = expected_quote_version

\* common_verify_and_fetch_tcb: certificate chain, signatures and QE
\* identity are checked outside this model; the call either fails or
\* returns (qe_tcb_status, sgx_extensions, tcb_info)
CommonVerifyOutcomes ==
    {Panicked(e) : e \in {"CertChainInvalid", "SignatureInvalid", "QeIdentityMismatch"}}
      \cup
    {Returned(f) : f \in [qe_tcb_status  : TcbStatusValues,
                          sgx_extensions : SgxExtensions,
                          tcb_info       : TcbInfos]}

\* a level is satisfied when every component and the PCE SVN reach it
LevelSatisfied(level, sgx_extensions) ==
    /\ \A i \in 1..NumComponents :
          sgx_extensions.components[i] >= level.components[i]
    /\ sgx_extensions.pcesvn >= level.pcesvn

\* the linear scan over the levels in their declared order: the index of
\* the first satisfied level at or after i, 0 when there is none
RECURSIVE ScanLevels(_, _, _)
ScanLevels(levels, sgx_extensions, i) ==
    IF i > Len(levels) THEN 0
    ELSE IF LevelSatisfied(levels[i], sgx_extensions) THEN i
    ELSE ScanLevels(levels, sgx_extensions, i + 1)

\* get_sgx_tdx_fmspc_tcbstatus_v3: (status, advisory ids) of the first
\* satisfied level
get_sgx_tdx_fmspc_tcbstatus_v3(tee_type, sgx_extensions, tcb_info_v3) ==
    LET i == ScanLevels(tcb_info_v3.levels, sgx_extensions, 1)
    IN  IF i = 0
          THEN Panicked("TcbEvaluationFailed")
          ELSE Returned([tcb_status   |-> tcb_info_v3.levels[i].status,
                         advisory_ids |-> tcb_info_v3.levels[i].advisory_ids])

\* converge_tcb_status_with_qe_tcb
converge_tcb_status_with_qe_tcb(tcb_status, qe_tcb_status) ==
    IF qe_tcb_status = "TcbUnrecognized" THEN "TcbUnrecognized"
    ELSE IF Severity(qe_tcb_status) > Severity(tcb_status) THEN qe_tcb_status
    ELSE tcb_status

\* the mutation: the defaulted argument and the certificate's extensions
\* trade places, so the scan sees an all-zero platform
PlatformTcbStatusDefaulted(q, sgx_extensions, tcb_info_v3) ==
    get_sgx_tdx_fmspc_tcbstatus_v3(
        q.header.tee_type,
        [sgx_extensions EXCEPT !.components = Uniform(0), !.pcesvn = 0],
        tcb_info_v3)

\* version_3.rs, the call of get_sgx_tdx_fmspc_tcbstatus_v3
PlatformTcbStatus(q, sgx_extensions, tcb_info_v3) ==
    get_sgx_tdx_fmspc_tcbstatus_v3(q.header.tee_type, sgx_extensions, tcb_info_v3)

\* the mutation: the platform status is returned as it is
FinalTcbStatusUnconverged(tcb_status, qe_tcb_status) == tcb_status

\* version_3.rs, tcb_status = converge_tcb_status_with_qe_tcb(...)
FinalTcbStatus(tcb_status, qe_tcb_status) ==
    converge_tcb_status_with_qe_tcb(tcb_status, qe_tcb_status)

\* The outcome of a call: res is what the caller gets, steps the calls made
\* in order, platform the status the TCB evaluation gave (if it ran).
Outcome(res, steps, platform) ==
    [res |-> res, steps |-> steps, platform |-> platform]

verify_quote_dcapv3(q, common) ==
    LET s1 == <<"check_quote_header">>
        s2 == Append(s1, "common_verify_and_fetch_tcb")
        s3 == Append(s2, "get_sgx_tdx_fmspc_tcbstatus_v3")
        s4 == Append(s3, "converge_tcb_status_with_qe_tcb")
    IN
    IF ~check_quote_header(q.header, ExpectedVersion)
      THEN Outcome(Panicked("invalid quote header"), s1, None)
    ELSE IF common.kind = "panic"
      THEN Outcome(common, s2, None)
    ELSE
    LET qe_tcb_status  == common.value[1].qe_tcb_status
        sgx_extensions == common.value[1].sgx_extensions
        tcb_info       == common.value[1].tcb_info
    IN
    IF tcb_info.variant # "V3"
      THEN Outcome(Panicked("TcbInfo must be V3!"), s2, None)
    ELSE
    LET evaluated == PlatformTcbStatus(q, sgx_extensions, tcb_info)
    IN
    IF evaluated.kind = "panic"
      THEN Outcome(evaluated, s3, None)
    ELSE
    LET tcb_status   == evaluated.value[1].tcb_status
        advisory_ids == evaluated.value[1].advisory_ids
    IN
    IF ~(tcb_status # "TcbRevoked")
      THEN Outcome(Panicked("FMSPC TCB Revoked"), s3, Some(tcb_status))
    ELSE
      Outcome(Returned([quote_version |-> q.header.version,
                        tee_type      |-> q.header.tee_type,
                        tcb_status    |-> FinalTcbStatus(tcb_status, qe_tcb_status),
                        fmspc         |-> sgx_extensions.fmspc,
                        quote_body    |-> q.isv_enclave_report,
                        advisory_ids  |-> advisory_ids]),
              s4, Some(tcb_status))

NotCalled == Outcome(NoCall, <<>>, None)

InitVerify ==
    /\ quote \in Quotes
    /\ fetched = None
    /\ out = NotCalled

IdleVerify ==
    /\ quote = [header |-> [version |-> 0, tee_type |-> "SGX"],
                isv_enclave_report |-> [mr_enclave  |-> Zeroed(32),
                                        mr_signer   |-> Zeroed(32),
                                        report_data |-> Zeroed(64)]]
    /\ fetched = None
    /\ out = NotCalled

\* one call of verify_quote_dcapv3 on the quote; `fetched` keeps what
\* common_verify_and_fetch_tcb returned when the call got that far
Verify ==
    /\ out.res.kind = "none"
    /\ \E common \in CommonVerifyOutcomes :
          /\ out' = verify_quote_dcapv3(quote, common)
          /\ fetched' = IF check_quote_header(quote.header, ExpectedVersion)
                          THEN Some(common) ELSE None
    /\ UNCHANGED quote

(***************************************************************************)
(* Specifications                                                          *)
(***************************************************************************)
NextCodec ==
    \/ Encode /\ UNCHANGED <<collVars, verifyVars>>
    \/ Alter /\ UNCHANGED <<collVars, verifyVars>>
    \/ Decode /\ UNCHANGED <<collVars, verifyVars>>

NextColl ==
    \/ SetTcbInfoV2 /\ UNCHANGED <<codecVars, verifyVars>>
    \/ SetQeIdentityV2 /\ UNCHANGED <<codecVars, verifyVars>>
    \/ GetIntelRootCa /\ UNCHANGED <<codecVars, verifyVars>>
    \/ SetIntelRootCaDer /\ UNCHANGED <<codecVars, verifyVars>>
    \/ GetSgxTcbSigning /\ UNCHANGED <<codecVars, verifyVars>>
    \/ SetSgxTcbSigningDer /\ UNCHANGED <<codecVars, verifyVars>>
    \/ SetSgxTcbSigningPem /\ UNCHANGED <<codecVars, verifyVars>>
    \/ GetSgxPckCertchain /\ UNCHANGED <<codecVars, verifyVars>>
    \/ SetSgxPckCertchainDer /\ UNCHANGED <<codecVars, verifyVars>>
    \/ SetSgxPckCertchainPem /\ UNCHANGED <<codecVars, verifyVars>>
    \/ SetSgxProcessorCrlDer /\ UNCHANGED <<codecVars, verifyVars>>

NextVerify ==
    Verify /\ UNCHANGED <<codecVars, collVars>>

\* the codec client alone, the builder's caller alone, the verifier alone
CodecInit == InitCodec /\ IdleColl /\ IdleVerify
CollInit == IdleCodec /\ InitColl /\ IdleVerify
VerifyInit == IdleCodec /\ IdleColl /\ InitVerify

SpecCodec == CodecInit /\ [][NextCodec]_vars
SpecColl == CollInit /\ [][NextColl]_vars
SpecVerify == VerifyInit /\ [][NextVerify]_vars

(***************************************************************************)
(* Properties of the codec (SpecCodec)                                     *)
(***************************************************************************)
\* the discriminant table of the wire format
WireDiscriminant ==
    [s \in TcbStatusValues |->
        CASE s = "OK" -> 0
          [] s = "TcbSwHardeningNeeded" -> 1
          [] s = "TcbConfigurationAndSwHardeningNeeded" -> 2
          [] s = "TcbConfigurationNeeded" -> 3
          [] s = "TcbOutOfDate" -> 4
          [] s = "TcbOutOfDateConfigurationNeeded" -> 5
          [] s = "TcbRevoked" -> 6
          [] s = "TcbUnrecognized" -> 7]

C2_RoundTrip ==
    (cpc = "decoded" /\ raw = enc[1]) =>
        /\ dec.kind = "ok"
        /\ dec.value = Some(vo)

C2_Witness ==
    /\ cpc = "decoded"
    /\ raw = enc[1]
    /\ vo.tcb_status = "TcbRevoked"
    /\ vo.mr_enclave # vo.mr_signer
    /\ vo.report_data # Zeroed(64)

\* C3: from_bytes returns a record exactly for 135-byte inputs whose byte 0
\* is in 0..7; every other input is answered with the error value
\* InvalidEncoding, never with a panic and never with a record.
C3_DecodeRejectsWithInvalidEncoding ==
    cpc = "decoded" =>
        IF Len(raw) = 135 /\ raw[1] \in 0..7
          THEN dec.kind = "ok"
          ELSE dec.kind = "err" /\ dec.msg = "InvalidEncoding"

(***************************************************************************)
(* Properties of the collateral builder (SpecColl)                         *)
(***************************************************************************)
\* C9: a getter called on a slot that was never set answers with a
\* missing-collateral error value (it does not panic), and a setter never
\* fails because other slots are empty.
C9_MissingCollateralIsTypedError ==
    /\ (ret.op = "get_intel_root_ca" /\ coll.intel_root_ca_der = None) =>
          (ret.res.kind = "err" /\ ret.res.msg = "MissingCollateral")
    /\ (ret.op = "get_sgx_tcb_signing" /\ coll.sgx_tcb_signing_der = None) =>
          (ret.res.kind = "err" /\ ret.res.msg = "MissingCollateral")
    /\ ret.op \in {"set_intel_root_ca_der", "set_sgx_tcb_signing_der",
                   "set_sgx_tcb_signing_pem", "set_sgx_pck_certchain_der",
                   "set_sgx_pck_certchain_pem", "set_sgx_processor_crl_der"} =>
          ret.res.kind = "ok"

\* C10: after any sequence of setter and getter calls from new(), every
\* slot holds the value the latest setter call for that slot gave, and is
\* empty when no setter gave it one: setters touch their own slot only and
\* getters touch none.
C10_SlotsHoldLatestSet ==
    \A s \in Slots : coll[s] = last[s]

C10_Witness ==
    /\ ret.op = "get_sgx_pck_certchain"
    /\ coll.intel_root_ca_der = Some(<<48, 1>>)
    /\ coll.sgx_tcb_signing_der = Some(<<48, 2>>)
    /\ coll.tcbinfov2 # None
    /\ coll.sgx_pck_certchain_der = None
    /\ coll.sgx_pck_processor_crl_der # None

(***************************************************************************)
(* Properties of verify_quote_dcapv3 (SpecVerify)                          *)
(***************************************************************************)
\* the severity order of the statuses, mildest first
SeverityOrder ==
    << "OK", "TcbSwHardeningNeeded", "TcbConfigurationAndSwHardeningNeeded",
       "TcbConfigurationNeeded", "TcbOutOfDate", "TcbOutOfDateConfigurationNeeded",
       "TcbRevoked", "TcbUnrecognized" >>
Rank(s) == CHOOSE i \in 1..Len(SeverityOrder) : SeverityOrder[i] = s
AtLeastAsSevere(a, b) == Rank(a) >= Rank(b)

\* the call reached the TCB evaluation: common_verify_and_fetch_tcb
\* returned a V3 TCB info
Evaluated ==
    /\ out.res.kind # "none"
    /\ fetched # None
    /\ fetched[1].kind = "ok"
    /\ fetched[1].value[1].tcb_info.variant = "V3"
FetchedLevels == fetched[1].value[1].tcb_info.levels
FetchedExtensions == fetched[1].value[1].sgx_extensions
FetchedQeStatus == fetched[1].value[1].qe_tcb_status

\* C4: when the platform status is revoked the call ends in the error
\* value TcbRevoked, without reaching convergence and without an output.
C4_RevokedIsTypedError ==
    out.platform = Some("TcbRevoked") =>
        /\ out.res.kind = "err"
        /\ out.res.msg = "TcbRevoked"
        /\ \A k \in 1..Len(out.steps) :
              out.steps[k] # "converge_tcb_status_with_qe_tcb"

\* C5: the status of a VerifiedOutput is at least as severe as the platform
\* status (which is not revoked) and as the QE status, and is unrecognized
\* when the QE status is; converging anything with unrecognized gives
\* unrecognized.
C5_ConvergenceMonotone ==
    /\ out.res.kind = "ok" =>
          LET final == out.res.value[1].tcb_status
              platform == out.platform[1]
          IN  /\ platform # "TcbRevoked"
              /\ AtLeastAsSevere(final, platform)
              /\ AtLeastAsSevere(final, FetchedQeStatus)
              /\ FetchedQeStatus = "TcbUnrecognized" => final = "TcbUnrecognized"
    /\ \A x \in TcbStatusValues :
          converge_tcb_status_with_qe_tcb(x, "TcbUnrecognized") = "TcbUnrecognized"

C5_Witness ==
    /\ out.res.kind = "ok"
    /\ out.platform = Some("TcbConfigurationNeeded")
    /\ FetchedQeStatus = "TcbOutOfDate"
    /\ out.res.value[1].tcb_status = "TcbOutOfDate"

\* the levels a platform satisfies, by index
SatisfiedLevels(levels, ext) ==
    {i \in 1..Len(levels) :
        /\ \A k \in 1..16 : ext.components[k] >= levels[i].components[k]
        /\ ext.pcesvn >= levels[i].pcesvn}
Least(S) == CHOOSE i \in S : \A j \in S : i <= j

Below(c1, c2) ==
    /\ \A k \in 1..16 : c1.components[k] <= c2.components[k]
    /\ c1.pcesvn <= c2.pcesvn

\* the status the evaluation gives platform c1 under the fetched levels
StatusFor(c1) ==
    get_sgx_tdx_fmspc_tcbstatus_v3("SGX", c1, fetched[1].value[1].tcb_info)

\* the platform evaluated in this call fares no worse than any platform
\* below it that matches a level
NoWorseThanAnyBelow ==
    \A c1 \in SgxExtensions :
        (Below(c1, FetchedExtensions) /\ StatusFor(c1).kind = "ok") =>
            /\ out.platform # None
            /\ AtLeastAsSevere(StatusFor(c1).value[1].tcb_status, out.platform[1])

\* the statuses never get milder along the declared order
StatusesAscend(levels) ==
    \A i, j \in 1..Len(levels) :
        i < j => AtLeastAsSevere(levels[j].status, levels[i].status)

\* C7 as stated: under any level list, a platform component-wise at or
\* above a matching platform matches too, with a status no more severe.
C7_MatchingMonotone ==
    Evaluated => NoWorseThanAnyBelow

\* C7 amended: the same, for level lists whose statuses never get milder
\* along the declared order.
C7_MatchingMonotoneOnAscendingStatuses ==
    (Evaluated /\ StatusesAscend(FetchedLevels)) => NoWorseThanAnyBelow

C7_Witness ==
    /\ Evaluated
    /\ Len(FetchedLevels) = 2
    /\ FetchedLevels[1].components = Uniform(HighSvn)
    /\ FetchedLevels[1].status = "TcbSwHardeningNeeded"
    /\ FetchedLevels[2].components = Uniform(0)
    /\ FetchedLevels[2].status = "TcbOutOfDate"
    /\ FetchedExtensions.components = Uniform(HighSvn + 1)
    /\ FetchedExtensions.pcesvn = HighPce
    /\ out.platform = Some("TcbSwHardeningNeeded")

\* C8: a quote whose version is not the expected one is answered with the
\* error value UnsupportedVersion, before any other step and without an
\* output.
C8_WrongVersionIsTypedError ==
    (out.res.kind # "none" /\ quote.header.version # 3) =>
        /\ out.res.kind = "err"
        /\ out.res.msg = "UnsupportedVersion"
        /\ out.steps = <<"check_quote_header">>

=============================================================================
